---- MODULE Spec2Model ----
(***************************************************************************)
(* ReportHistoryStore (src/lib/ReportHistoryStore.jsx): a per-report cache *)
(* of sequence-numbered history items in front of API.Report_GetHistory.   *)
(*                                                                         *)
(* JavaScript runs every callback to completion, so one action is one      *)
(* synchronous run of the code: a public call up to the point where it     *)
(* waits for the API, or the whole chain of .done callbacks of a response. *)
(***************************************************************************)
EXTENDS Integers, Sequences, FiniteSets, TLC

VARIABLES
    cache,   \* this.cache: reportID -> array of history items, newest first
    log,     \* the history the server holds for each report, newest first
    calls,   \* the public get/set calls in progress, one per slot
    last     \* the set call that ran last, while nothing else has happened

vars == <<cache, log, calls, last>>

----------------------------------------------------------------------------
(* Bounds *)

MaxSeq == 3        \* sequence numbers of the first report are 1..MaxSeq
MaxSerialSeq == 5  \* the same, when calls are made one after the other

\* Two reports.  The second one only ever has the action numbered 1: it is
\* there to show that a call on one report leaves the other alone.
ReportIDs == {"r1", "r2"}
SeqNumsOf(reportID, max) == IF reportID = "r1" THEN 1..max ELSE {1}

\* Two callers, so that two public calls can overlap.
Slots == {1, 2}

----------------------------------------------------------------------------
(* Action names are strings.  A string is modelled as the tuple of its      *)
(* pieces of two characters (the last piece may have one), so that the     *)
(* prefix test of the filter is computed on the text of the name.          *)

BILLABLEUPDATETRANSACTION ==
    <<"BI", "LL", "AB", "LE", "UP", "DA",
      "TE", "TR", "AN", "SA", "CT", "IO", "N">>
BILLABLEDELEGATE ==
    <<"BI", "LL", "AB", "LE", "DE", "LE", "GA", "TE">>
QUEUEDFOREXPORT ==
    <<"QU", "EU", "ED", "FO", "RE", "XP", "OR", "T">>
REIMBURSEMENTACHBOUNCEFASTDEBIT ==
    <<"RE", "IM", "BU", "RS", "EM", "EN", "TA", "CH",
      "BO", "UN", "CE", "FA", "ST", "DE", "BI", "T">>
REIMBURSEMENTRETRYDEBIT ==
    <<"RE", "IM", "BU", "RS", "EM", "EN",
      "TR", "ET", "RY", "DE", "BI", "T">>
DIGITALSIGNATURE ==
    <<"DI", "GI", "TA", "LS", "IG", "NA", "TU", "RE">>

HIDDEN_ACTIONS ==
    { BILLABLEUPDATETRANSACTION, BILLABLEDELEGATE, QUEUEDFOREXPORT,
      REIMBURSEMENTACHBOUNCEFASTDEBIT, REIMBURSEMENTRETRYDEBIT,
      DIGITALSIGNATURE }

\* The needle of Str.startsWith(historyItem.actionName, 'CC')
CC == <<"CC">>

\* Names the modelled server and callers use: one of the hidden list, one
\* that is shown, one with the reserved prefix, and one that starts with a
\* single "C".
ADDCOMMENT == <<"AD", "DC", "OM", "ME", "NT">>
CCFOO == <<"CC", "FO", "O">>
CLOSED == <<"CL", "OS", "ED">>
ActionNames == <<BILLABLEDELEGATE, ADDCOMMENT, CCFOO, CLOSED>>

\* The history item that carries sequence number n.  Sequence numbers are
\* unique within a report, so the item pushed to set() and the item the
\* server returns for n are the same item.
Item(n) ==
    [sequenceNumber |-> n,
     actionName |-> ActionNames[((n - 1) % Len(ActionNames)) + 1]]

----------------------------------------------------------------------------
(* Pure helpers *)

\* The reportAction field of a get call, which has none.
NoAction == [sequenceNumber |-> 0, actionName |-> <<>>]

RECURSIVE Reverse(_)
Reverse(s) == IF s = <<>> THEN <<>> ELSE Append(Reverse(Tail(s)), Head(s))

\* Str.startsWith(haystack, needle)
StartsWith(haystack, needle) ==
    /\ Len(haystack) >= Len(needle)
    /\ SubSeq(haystack, 1, Len(needle)) = needle

\* The predicate of filterHiddenActions: the item is shown.
Shown(historyItem) ==
    /\ historyItem.actionName \notin HIDDEN_ACTIONS
    /\ ~StartsWith(historyItem.actionName, CC)

\* A filter that forgets the reserved prefix.
filterHiddenActions_ListOnly(historyItems) ==
    SelectSeq(historyItems,
              LAMBDA historyItem : historyItem.actionName \notin HIDDEN_ACTIONS)

\* this.filterHiddenActions(historyItems)
filterHiddenActions(historyItems) == SelectSeq(historyItems, Shown)

\* A search that does not see the items the filter hides.
findWhere_Shown(history, n) ==
    \E i \in 1..Len(history) :
        history[i].sequenceNumber = n /\ Shown(history[i])

\* _.findWhere(history, {sequenceNumber: n}) is truthy
findWhere(history, n) ==
    \E i \in 1..Len(history) : history[i].sequenceNumber = n

\* this.cache[reportID] || []  (this.cache is an object: a report never
\* loaded has no key in it)
CachedHistory(reportID) ==
    IF reportID \in DOMAIN cache THEN cache[reportID] ELSE <<>>

\* this.cache[reportID] = history
CachePut(reportID, history) ==
    [r \in DOMAIN cache \cup {reportID} |->
        IF r = reportID THEN history ELSE cache[r]]

\* _.reduce(list, (prev, curr) => ..., memo) of mergeItems
RECURSIVE MergeReduce(_, _)
MergeReduce(list, prev) ==
    IF list = <<>> THEN prev
    ELSE MergeReduce(Tail(list),
            IF ~findWhere(prev, Head(list).sequenceNumber)
            THEN <<Head(list)>> \o prev
            ELSE prev)

\* A merge that does not reverse the new items before it puts them in front.
mergeItems_NoReverse(prev, newHistory) ==
    IF Len(newHistory) = 0 THEN prev
    ELSE MergeReduce(newHistory, prev)

\* A merge that empties the cached array when there is nothing new.
mergeItems_EmptyClears(prev, newHistory) ==
    IF Len(newHistory) = 0 THEN <<>>
    ELSE MergeReduce(Reverse(newHistory), prev)

\* A merge that does not look for the number of a new item in the array.
mergeItems_NoDedup(prev, newHistory) ==
    IF Len(newHistory) = 0 THEN prev
    ELSE newHistory \o prev

\* mergeItems(reportID, newHistory): the new value of this.cache[reportID],
\* given its old value prev.
mergeItems(prev, newHistory) ==
    IF Len(newHistory) = 0 THEN prev
    ELSE MergeReduce(Reverse(newHistory), prev)

\* offset: firstHistoryItem.sequenceNumber || 0
PollOffset(cachedHistory) ==
    IF cachedHistory = <<>> THEN 0 ELSE Head(cachedHistory).sequenceNumber

----------------------------------------------------------------------------
(* The server behind API.Report_GetHistory *)

\* The parameters of a request: {reportID} or {reportID, offset}.
FullRequest(reportID) == [reportID |-> reportID]
PollRequest(reportID, offset) == [reportID |-> reportID, offset |-> offset]
HasOffset(request) == "offset" \in DOMAIN request

\* The answer to a request, computed from the server's history of the report:
\* all of it without offset (or with offset 0), else the items newer than the
\* offset; newest first.
ServerResponse(history, request) ==
    IF ~HasOffset(request) \/ request.offset = 0 THEN history
    ELSE SelectSeq(history, LAMBDA item : item.sequenceNumber > request.offset)

----------------------------------------------------------------------------
(* Calls.  A call record is one public get or set in progress:             *)
(*   pc       "cacheFirst": set waits for the fetchAll of getFromCacheFirst*)
(*            "fetchAll":   this.get waits for fetchAll                    *)
(*            "poll":       this.get waits for the request with offset     *)
(*            "done":       the public promise is resolved                 *)
(*   response <<>> until the server has answered, then <<the array>>       *)
(*   promise  the state of the Deferred the public method returned         *)
(*   sent     the requests the call has sent so far                        *)
(*   path     the branch of set's callback that was taken                  *)
(*   failed   a request of the call has failed                             *)
(*   loaded   this.cache had an array for the report when the call started *)
(*   twin     the call is a get that polls, and it started while the get   *)
(*            of the other caller was waiting for its poll on the same     *)
(*            report, or the other way round                               *)

IdleCall ==
    [op |-> "none", reportID |-> "none", reportAction |-> NoAction,
     pc |-> "idle", response |-> <<>>,
     promise |-> "pending", value |-> <<>>,
     sent |-> <<>>, path |-> "none", failed |-> FALSE, loaded |-> FALSE,
     twin |-> FALSE]

NewCall(op, reportID, reportAction) ==
    [IdleCall EXCEPT !.op = op, !.reportID = reportID,
                     !.reportAction = reportAction,
                     !.loaded = (reportID \in DOMAIN cache)]

Waiting(call) == call.pc \in {"cacheFirst", "fetchAll", "poll"}

\* The request a waiting call waits for.
Pending(call) == call.sent[Len(call.sent)]

\* this.API.Report_GetHistory(request): the call waits at pc.
Request(call, pc, request) ==
    [call EXCEPT !.pc = pc, !.response = <<>>, !.sent = Append(@, request)]

\* promise.resolve(value) of the public promise
Resolve(call, value) ==
    [call EXCEPT !.pc = "done", !.promise = "resolved", !.value = value,
                 !.response = <<>>]

\* A this.get that polls even when nothing is cached.
StartGet_AlwaysPoll(call, cachedHistory) ==
    Request(call, "poll", PollRequest(call.reportID, PollOffset(cachedHistory)))

\* this.get(reportID), up to the request it sends: a full fetch when the
\* cached history is empty, else a poll from the first cached item.
StartGet(call, cachedHistory) ==
    IF cachedHistory = <<>>
    THEN Request(call, "fetchAll", FullRequest(call.reportID))
    ELSE Request(call, "poll",
                 PollRequest(call.reportID, PollOffset(cachedHistory)))

\* A callback of set that puts the new item at the back of the array.
SetDone_Push(call, cachedHistory) ==
    LET sequenceNumber == call.reportAction.sequenceNumber
        pushed == Append(cachedHistory, call.reportAction)
    IN  IF findWhere(cachedHistory, sequenceNumber)
        THEN [history |-> cachedHistory,
              call |-> Resolve([call EXCEPT !.path = "cached"],
                               filterHiddenActions(cachedHistory))]
        ELSE IF findWhere(cachedHistory, sequenceNumber - 1)
        THEN [history |-> pushed,
              call |-> Resolve([call EXCEPT !.path = "unshift"],
                               filterHiddenActions(pushed))]
        ELSE [history |-> cachedHistory,
              call |-> StartGet([call EXCEPT !.path = "refetch"], cachedHistory)]

\* A callback of set that resolves before it unshifts the new item.
SetDone_ResolveFirst(call, cachedHistory) ==
    LET sequenceNumber == call.reportAction.sequenceNumber
        unshifted == <<call.reportAction>> \o cachedHistory
    IN  IF findWhere(cachedHistory, sequenceNumber)
        THEN [history |-> cachedHistory,
              call |-> Resolve([call EXCEPT !.path = "cached"],
                               filterHiddenActions(cachedHistory))]
        ELSE IF findWhere(cachedHistory, sequenceNumber - 1)
        THEN [history |-> unshifted,
              call |-> Resolve([call EXCEPT !.path = "unshift"],
                               filterHiddenActions(cachedHistory))]
        ELSE [history |-> cachedHistory,
              call |-> StartGet([call EXCEPT !.path = "refetch"], cachedHistory)]

\* A callback of set that puts the new item in front even when an item with
\* its number is cached already.
SetDone_InsertAgain(call, cachedHistory) ==
    LET sequenceNumber == call.reportAction.sequenceNumber
        unshifted == <<call.reportAction>> \o cachedHistory
    IN  IF findWhere(cachedHistory, sequenceNumber)
        THEN [history |-> unshifted,
              call |-> Resolve([call EXCEPT !.path = "cached"],
                               filterHiddenActions(unshifted))]
        ELSE IF findWhere(cachedHistory, sequenceNumber - 1)
        THEN [history |-> unshifted,
              call |-> Resolve([call EXCEPT !.path = "unshift"],
                               filterHiddenActions(unshifted))]
        ELSE [history |-> cachedHistory,
              call |-> StartGet([call EXCEPT !.path = "refetch"], cachedHistory)]

\* A callback of set that does not get the history again when neither the
\* item nor its predecessor is cached: nothing is left to resolve the call.
SetDone_NoRefetch(call, cachedHistory) ==
    LET sequenceNumber == call.reportAction.sequenceNumber
        unshifted == <<call.reportAction>> \o cachedHistory
    IN  IF findWhere(cachedHistory, sequenceNumber)
        THEN [history |-> cachedHistory,
              call |-> Resolve([call EXCEPT !.path = "cached"],
                               filterHiddenActions(cachedHistory))]
        ELSE IF findWhere(cachedHistory, sequenceNumber - 1)
        THEN [history |-> unshifted,
              call |-> Resolve([call EXCEPT !.path = "unshift"],
                               filterHiddenActions(unshifted))]
        ELSE [history |-> cachedHistory,
              call |-> [call EXCEPT !.path = "refetch", !.pc = "stuck",
                                    !.response = <<>>]]

\* The .done callback of set (lines 68-88), run with cachedHistory, which is
\* the array this.cache[reportID] holds: the new array and the new call.
SetDone(call, cachedHistory) ==
    LET sequenceNumber == call.reportAction.sequenceNumber
        unshifted == <<call.reportAction>> \o cachedHistory
    IN  IF findWhere(cachedHistory, sequenceNumber)
        THEN [history |-> cachedHistory,
              call |-> Resolve([call EXCEPT !.path = "cached"],
                               filterHiddenActions(cachedHistory))]
        ELSE IF findWhere(cachedHistory, sequenceNumber - 1)
        THEN [history |-> unshifted,
              call |-> Resolve([call EXCEPT !.path = "unshift"],
                               filterHiddenActions(unshifted))]
        ELSE [history |-> cachedHistory,
              call |-> StartGet([call EXCEPT !.path = "refetch"], cachedHistory)]

----------------------------------------------------------------------------
(* The record of consecutive set calls.  last remembers the set call that  *)
(* ran last, as long as nothing else has happened since it started: the    *)
(* report, the item, the slot, and the values that this call and the same  *)
(* call just before it resolved with.                                      *)

NoRun == [reportID |-> "none", reportAction |-> NoAction, slot |-> 0,
          values |-> <<>>]

\* A set call with the same arguments starts right after the last one resolved.
Repeats(reportID, reportAction) ==
    /\ last.slot # 0
    /\ last.reportID = reportID
    /\ last.reportAction = reportAction
    /\ last.values # <<>>
    /\ ~Waiting(calls[last.slot])

RunStart(s, reportID, reportAction) ==
    [reportID |-> reportID, reportAction |-> reportAction, slot |-> s,
     values |-> IF Repeats(reportID, reportAction)
                THEN <<last.values[Len(last.values)]>> ELSE <<>>]

\* The call of the run takes a step and ends it in newCall.
RunStep(run, newCall) ==
    IF newCall.pc = "done"
    THEN [run EXCEPT !.values = Append(@, newCall.value)]
    ELSE run

\* last after a step of slot s that leaves its call as newCall
LastAfter(s, newCall) ==
    IF last.slot = s /\ ~newCall.failed THEN RunStep(last, newCall) ELSE NoRun

----------------------------------------------------------------------------
(* Actions *)

Init ==
    /\ cache = [r \in {} |-> <<>>]
    /\ log = [r \in ReportIDs |-> <<>>]
    /\ calls = [s \in Slots |-> IdleCall]
    /\ last = NoRun

\* The get call other waits for its poll while the get call call starts a
\* poll on the same report: neither has resolved.
Twin(other, call) ==
    /\ other.op = "get"
    /\ other.pc = "poll"
    /\ call.pc = "poll"
    /\ other.reportID = call.reportID

\* public get(reportID), lines 48-55, with this.get, lines 139-167
Get(s, reportID) ==
    /\ calls[s].pc = "idle"
    /\ LET call == StartGet(NewCall("get", reportID, NoAction),
                            CachedHistory(reportID))
           twins == { t \in DOMAIN calls \ {s} : Twin(calls[t], call) }
       IN  calls' = [t \in DOMAIN calls |->
                IF t = s THEN [call EXCEPT !.twin = (twins # {})]
                ELSE IF t \in twins THEN [calls[t] EXCEPT !.twin = TRUE]
                ELSE calls[t]]
    /\ last' = NoRun
    /\ UNCHANGED <<cache, log>>

\* public set(reportID, reportAction), lines 65-91, with getFromCacheFirst,
\* lines 176-189
Set(s, reportID, reportAction) ==
    /\ calls[s].pc = "idle"
    /\ LET call == NewCall("set", reportID, reportAction)
           run == RunStart(s, reportID, reportAction)
       IN  IF CachedHistory(reportID) = <<>>
           THEN /\ calls' = [calls EXCEPT ![s] =
                        Request(call, "cacheFirst", FullRequest(reportID))]
                /\ cache' = cache
                /\ last' = run
           ELSE LET done == SetDone(call, cache[reportID])
                IN  /\ calls' = [calls EXCEPT ![s] = done.call]
                    /\ cache' = CachePut(reportID, done.history)
                    /\ last' = RunStep(run, done.call)
    /\ UNCHANGED log

\* The server answers the request a call waits for.
Serve(s) ==
    /\ Waiting(calls[s])
    /\ calls[s].response = <<>>
    /\ calls' = [calls EXCEPT ![s].response =
            <<ServerResponse(log[calls[s].reportID], Pending(calls[s]))>>]
    /\ last' = LastAfter(s, calls[s])
    /\ UNCHANGED <<cache, log>>

\* The answer arrives: the .done callbacks run, in the order they were added.
Deliver(s) ==
    /\ Waiting(calls[s])
    /\ calls[s].response # <<>>
    /\ LET call == calls[s]
           reportID == call.reportID
           reportHistory == call.response[1]
           merged == mergeItems(cache[reportID], reportHistory)
           done == SetDone(call, reportHistory)
           newCall ==
               CASE call.pc = "fetchAll" ->
                        Resolve(call, filterHiddenActions(reportHistory))
                 [] call.pc = "poll" ->
                        Resolve(call, filterHiddenActions(merged))
                 [] call.pc = "cacheFirst" -> done.call
           newHistory ==
               CASE call.pc = "fetchAll" -> reportHistory
                 [] call.pc = "poll" -> merged
                 [] call.pc = "cacheFirst" -> done.history
       IN  /\ calls' = [calls EXCEPT ![s] = newCall]
           /\ cache' = CachePut(reportID, newHistory)
           /\ last' = LastAfter(s, newCall)
    /\ UNCHANGED log

\* A failure that throws the cached array of the report away.
Fail_DropsCache(s) ==
    /\ Waiting(calls[s])
    /\ calls' = [calls EXCEPT ![s].failed = TRUE, ![s].pc = "stuck",
                              ![s].response = <<>>]
    /\ cache' = CachePut(calls[s].reportID, <<>>)
    /\ last' = NoRun
    /\ UNCHANGED log

\* The request a call waits for fails: no .done callback runs, and the code
\* adds no .fail callback, so nothing runs at all.
Fail(s) ==
    /\ Waiting(calls[s])
    /\ calls' = [calls EXCEPT ![s].failed = TRUE, ![s].pc = "stuck",
                              ![s].response = <<>>]
    /\ last' = NoRun
    /\ UNCHANGED <<cache, log>>

\* The caller has taken the value of a resolved call, or has given up on a
\* call that will never resolve.
Return(s) ==
    /\ calls[s].pc \in {"done", "stuck"}
    /\ calls' = [calls EXCEPT ![s] = IdleCall]
    /\ last' = IF last.slot = s /\ calls[s].pc = "done" THEN last ELSE NoRun
    /\ UNCHANGED <<cache, log>>

\* The server records a new action of a report: its sequence number is
\* greater than all before it (numbers may be skipped).
NewAction(reportID, n) ==
    /\ \A i \in 1..Len(log[reportID]) : log[reportID][i].sequenceNumber < n
    /\ log' = [log EXCEPT ![reportID] = <<Item(n)>> \o @]
    /\ last' = NoRun
    /\ UNCHANGED <<cache, calls>>

\* The steps of the callers in slots, on the reports in reports, with
\* sequence numbers up to max.
NextWith(slots, reports, max) ==
    \/ \E s \in slots, r \in reports : Get(s, r)
    \/ \E s \in slots, r \in reports :
            \E n \in SeqNumsOf(r, max) : Set(s, r, Item(n))
    \/ \E s \in slots : Serve(s)
    \/ \E s \in slots : Deliver(s)
    \/ \E s \in slots : Fail(s)
    \/ \E s \in slots : Return(s)
    \/ \E r \in reports : \E n \in SeqNumsOf(r, max) : NewAction(r, n)

\* Overlapping calls on one report.
Next == NextWith(Slots, {"r1"}, MaxSeq)

Spec == Init /\ [][Next]_vars

\* One call at a time, on two reports and over a longer history.
SerialNext == NextWith({1}, ReportIDs, MaxSerialSeq)

SerialSpec == Init /\ [][SerialNext]_vars

----------------------------------------------------------------------------
(* Properties *)

\* The report of a call has a cached array with an item numbered n.
Cached(reportID, n) ==
    reportID \in DOMAIN cache /\ findWhere(cache[reportID], n)

\* C1: a value that get or set resolved with holds no item whose actionName
\* is in the hidden list and no item whose actionName starts with "CC".
C1_NoHiddenInValue ==
    \A s \in Slots :
        calls[s].promise = "resolved" =>
            \A i \in 1..Len(calls[s].value) :
                /\ calls[s].value[i].actionName \notin HIDDEN_ACTIONS
                /\ ~StartsWith(calls[s].value[i].actionName, CC)

\* C1 happens: a call has resolved with a value while the cache of its report
\* holds an item of the hidden list and an item with the prefix.
C1_Witness ==
    \E s \in Slots :
        /\ calls[s].promise = "resolved"
        /\ calls[s].value # <<>>
        /\ calls[s].reportID \in DOMAIN cache
        /\ \E i, j \in 1..Len(cache[calls[s].reportID]) :
            /\ cache[calls[s].reportID][i].actionName = BILLABLEDELEGATE
            /\ cache[calls[s].reportID][j].actionName = CCFOO
        /\ Len(calls[s].value) + 2 = Len(cache[calls[s].reportID])

\* The step is the start of a public set call in slot s.
SetStarts(s) == calls[s].pc = "idle" /\ calls'[s].op = "set"

\* The step is the start of a public get call in slot s.
GetStarts(s) == calls[s].pc = "idle" /\ calls'[s].op = "get"

\* The step runs the .done callbacks of the response the call in s waits for.
Delivers(s) ==
    /\ Waiting(calls[s])
    /\ calls[s].response # <<>>
    /\ calls'[s].pc # calls[s].pc
    /\ ~calls'[s].failed

\* C2: when the cache of the report is not empty, holds an item numbered N-1
\* and none numbered N, set with an item numbered N sends no request, puts
\* the item in front of the cached array, leaves the rest of the array as it
\* was, and resolves with the filtered new array.
C2_FastPath ==
    [][\A s \in Slots :
        LET reportID == calls'[s].reportID
            reportAction == calls'[s].reportAction
            N == reportAction.sequenceNumber
        IN  ( /\ SetStarts(s)
              /\ CachedHistory(reportID) # <<>>
              /\ Cached(reportID, N - 1)
              /\ ~Cached(reportID, N) )
            => /\ calls'[s].sent = <<>>
               /\ cache'[reportID] = <<reportAction>> \o cache[reportID]
               /\ calls'[s].promise = "resolved"
               /\ calls'[s].value = filterHiddenActions(cache'[reportID])
    ]_vars

\* C2 happens: a set call has resolved on the fast path without a request,
\* and the cached array is its item followed by two older items.
C2_Witness ==
    \E s \in Slots :
        /\ calls[s].op = "set"
        /\ calls[s].path = "unshift"
        /\ calls[s].sent = <<>>
        /\ calls[s].promise = "resolved"
        /\ cache[calls[s].reportID] =
              << calls[s].reportAction,
                 Item(calls[s].reportAction.sequenceNumber - 1),
                 Item(calls[s].reportAction.sequenceNumber - 2) >>

\* The greatest sequence number of a non-empty array of items.
GreatestSeq(history) ==
    CHOOSE m \in { history[i].sequenceNumber : i \in 1..Len(history) } :
        \A i \in 1..Len(history) : history[i].sequenceNumber <= m

\* C3: when the cache of the report is not empty and holds neither an item
\* numbered N nor one numbered N-1, set with an item numbered N sends exactly
\* one request, a poll whose offset is the greatest cached sequence number
\* and never a full fetch; the response is merged into the cache and the call
\* resolves with the filtered merged array.
C3_GapPollsFromGreatest ==
    [][\A s \in Slots :
        LET reportID == calls'[s].reportID
            N == calls'[s].reportAction.sequenceNumber
        IN  /\ ( /\ SetStarts(s)
                 /\ CachedHistory(reportID) # <<>>
                 /\ ~Cached(reportID, N)
                 /\ ~Cached(reportID, N - 1) )
               => /\ calls'[s].pc = "poll"
                  /\ calls'[s].sent =
                        <<PollRequest(reportID, GreatestSeq(cache[reportID]))>>
                  /\ cache' = cache
            /\ ( /\ calls[s].op = "set"
                 /\ calls[s].pc = "poll"
                 /\ Len(calls[s].sent) = 1
                 /\ Delivers(s) )
               => /\ calls'[s].promise = "resolved"
                  /\ calls'[s].sent = calls[s].sent
                  /\ cache'[reportID] =
                        mergeItems(cache[reportID], calls[s].response[1])
                  /\ calls'[s].value = filterHiddenActions(cache'[reportID])
    ]_vars

----------------------------------------------------------------------------
(* mergeItems on its own: a caller waits for a poll on a report whose      *)
(* cached array is any descending array without duplicates, and the        *)
(* server's answer is any array without duplicates, in any order.  log     *)
(* keeps the answer that was sent.                                         *)

MaxMergeSeq == 4   \* sequence numbers of the cached array and the answer
MaxDelta == 3      \* length of the answer

\* The arrays of length n without duplicates with numbers of 1..MaxMergeSeq.
RECURSIVE Arrays(_)
Arrays(n) ==
    IF n = 0 THEN { <<>> }
    ELSE { <<Item(k)>> \o a : k \in 1..MaxMergeSeq, a \in Arrays(n - 1) }

NoDuplicates(history) ==
    \A i, j \in 1..Len(history) :
        i # j => history[i].sequenceNumber # history[j].sequenceNumber

Descending(history) ==
    \A i \in 1..(Len(history) - 1) :
        history[i].sequenceNumber > history[i + 1].sequenceNumber

Deltas ==
    UNION { { a \in Arrays(n) : NoDuplicates(a) } : n \in 0..MaxDelta }

Existing ==
    UNION { { a \in Arrays(n) : Descending(a) } : n \in 0..MaxMergeSeq }

MergeInit ==
    \E E \in Existing, D \in Deltas :
        /\ cache = [r \in {"r1"} |-> E]
        /\ log = [r \in ReportIDs |-> IF r = "r1" THEN D ELSE <<>>]
        /\ calls = [s \in Slots |->
              IF s = 1
              THEN [Request(NewCall("get", "r1", NoAction), "poll",
                            PollRequest("r1", PollOffset(E)))
                        EXCEPT !.response = <<D>>]
              ELSE IdleCall]
        /\ last = NoRun

MergeNext == Deliver(1) \/ Return(1)

MergeSpec == MergeInit /\ [][MergeNext]_vars

\* The items of history in descending order of sequence number.
RECURSIVE SortDescending(_)
SortDescending(history) ==
    IF history = <<>> THEN <<>>
    ELSE LET m == GreatestSeq(history)
         IN  SelectSeq(history, LAMBDA item : item.sequenceNumber = m)
             \o SortDescending(
                    SelectSeq(history, LAMBDA item : item.sequenceNumber # m))

\* The items of delta whose sequence number is not in existing.
NotIn(delta, existing) ==
    SelectSeq(delta, LAMBDA item : ~findWhere(existing, item.sequenceNumber))

\* The step merges the answer the caller of slot 1 waits for.
Merges == calls[1].pc = "poll" /\ calls'[1].pc = "done"

\* C4 as claimed: merging a delta D into a descending array E without
\* duplicates gives, for every order of D, the items of D whose numbers are
\* not in E in descending order, followed by E.
C4_MergeSortsAnyOrder ==
    [][Merges =>
        cache'["r1"] =
            SortDescending(NotIn(calls[1].response[1], cache["r1"]))
            \o cache["r1"]
    ]_vars

\* C4 amended: the items of D whose numbers are not in E are put in front
\* of E in the order in which D was delivered; so they are in descending
\* order when D was delivered newest first.
C4_MergeKeepsDeliveryOrder ==
    [][Merges =>
        LET D == calls[1].response[1]
            E == cache["r1"]
        IN  /\ cache'["r1"] = NotIn(D, E) \o E
            /\ Descending(D) =>
                  cache'["r1"] = SortDescending(NotIn(D, E)) \o E
    ]_vars

\* C4 happens: the delta 3,4,2 (mixed order) was merged into [2,1], and the
\* cached array is 3,4 followed by [2,1].
C4_Witness ==
    /\ calls[1].pc = "done"
    /\ log["r1"] = <<Item(3), Item(4), Item(2)>>
    /\ cache["r1"] = <<Item(3), Item(4), Item(2), Item(1)>>

\* The number of items of history numbered n.
Count(history, n) ==
    Cardinality({ i \in 1..Len(history) : history[i].sequenceNumber = n })

\* Two set calls with the same report and item have resolved one right after
\* the other, with no other call, answer or new action from the start of the
\* first to the end of the second.
SetTwice == Len(last.values) = 2

\* C5 as claimed: whatever the cache of the report held at the start, two set
\* calls in a row with the same item resolve with the same filtered value,
\* and the cache then holds exactly one item with the number of that item.
C5_SetTwiceSame ==
    SetTwice =>
        /\ last.values[1] = last.values[2]
        /\ Count(CachedHistory(last.reportID),
                 last.reportAction.sequenceNumber) = 1

\* C5 amended: the same, for the runs in which the first call left an item
\* with that number in the cache, so that the second call found it there.
C5_SetTwiceSameWhenCached ==
    ( /\ SetTwice
      /\ calls[last.slot].path = "cached"
      /\ calls[last.slot].sent = <<>> )
    => /\ last.values[1] = last.values[2]
       /\ Count(CachedHistory(last.reportID),
                last.reportAction.sequenceNumber) = 1

\* C5 happens: the second of two set calls in a row has found the item in
\* the cache, behind an item that is hidden from the value.
C5_Witness ==
    /\ SetTwice
    /\ calls[last.slot].path = "cached"
    /\ calls[last.slot].sent = <<>>
    /\ Len(last.values[2]) < Len(CachedHistory(last.reportID))
    /\ last.values[2] # <<>>

\* C6: get on a report that has no cache sends exactly one request, a full
\* fetch without offset; the response becomes the cached array, item for item
\* in the order delivered, and the call resolves with the filtered response.
C6_GetUncached ==
    [][\A s \in Slots :
        LET reportID == calls'[s].reportID
        IN  /\ (GetStarts(s) /\ reportID \notin DOMAIN cache)
               => /\ calls'[s].pc = "fetchAll"
                  /\ calls'[s].sent = <<FullRequest(reportID)>>
                  /\ cache' = cache
            /\ (calls[s].op = "get" /\ calls[s].pc = "fetchAll" /\ Delivers(s))
               => /\ calls'[s].promise = "resolved"
                  /\ calls'[s].sent = calls[s].sent
                  /\ cache'[reportID] = calls[s].response[1]
                  /\ calls'[s].value = filterHiddenActions(calls[s].response[1])
            /\ calls'[s].op = "get" => Len(calls'[s].sent) = 1
    ]_vars

\* C6 happens: a get call that started on a report without cache has resolved
\* after one full fetch, and the cached array holds more than the value.
C6_Witness ==
    \E s \in Slots :
        /\ calls[s].op = "get"
        /\ ~calls[s].loaded
        /\ calls[s].promise = "resolved"
        /\ calls[s].sent = <<FullRequest(calls[s].reportID)>>
        /\ calls[s].value # <<>>
        /\ Len(calls[s].value) < Len(cache[calls[s].reportID])

\* C7: when a request fails during get or set, the promise the call returned
\* ends rejected.
C7_FailureRejects ==
    \A s \in Slots : calls[s].failed => calls[s].promise = "rejected"

\* The step is the failure of the request the call in s waits for.
Fails(s) == ~calls[s].failed /\ calls'[s].failed

\* The step is a set call in s that takes the fast path.
Unshifts(s) == SetStarts(s) /\ calls'[s].path = "unshift"

\* C8: a failed request leaves the cache of every report as it was; the cache
\* changes only in the .done callbacks of a response (and in the fast path of
\* set, which sends no request), and then only for the report of the call:
\* never when a request fails, is sent, or is answered by the server.
C8_FailureLeavesCache ==
    [][ /\ (\E s \in Slots : Fails(s)) => cache' = cache
        /\ cache' # cache =>
              \E s \in Slots :
                  /\ Delivers(s) \/ Unshifts(s)
                  /\ \A r \in DOMAIN cache :
                        r # calls'[s].reportID =>
                            r \in DOMAIN cache' /\ cache'[r] = cache[r]
    ]_vars

\* C8 happens: a request for one report has failed while both reports have
\* cached items.
C8_Witness ==
    \E s \in Slots :
        /\ calls[s].failed
        /\ calls[s].promise = "pending"
        /\ DOMAIN cache = ReportIDs
        /\ \A r \in ReportIDs : cache[r] # <<>>

\* C9: the filter never changes what is stored.  Every item of a delivered
\* response is in the cache after the callbacks, and so is the item of a set
\* call on the fast path, whatever their actionName; and a set call whose
\* predecessor is cached as a hidden item takes the fast path without request.
C9_HiddenItemsStored ==
    [][\A s \in Slots :
        LET reportID == calls'[s].reportID
            reportAction == calls'[s].reportAction
            N == reportAction.sequenceNumber
        IN  /\ Delivers(s) =>
                  \A i \in 1..Len(calls[s].response[1]) :
                      \E j \in 1..Len(cache'[reportID]) :
                          cache'[reportID][j] = calls[s].response[1][i]
            /\ ( /\ SetStarts(s)
                 /\ ~Cached(reportID, N)
                 /\ \E i \in 1..Len(CachedHistory(reportID)) :
                       /\ cache[reportID][i].sequenceNumber = N - 1
                       /\ ~Shown(cache[reportID][i]) )
               => /\ calls'[s].sent = <<>>
                  /\ calls'[s].promise = "resolved"
                  /\ cache'[reportID] = <<reportAction>> \o cache[reportID]
    ]_vars

\* C9 happens: a set call took the fast path without request on a cached
\* predecessor that the filter hides, and the hidden item is still cached.
C9_Witness ==
    \E s \in Slots :
        /\ calls[s].op = "set"
        /\ calls[s].loaded
        /\ calls[s].path = "unshift"
        /\ calls[s].sent = <<>>
        /\ \E i \in 1..Len(cache[calls[s].reportID]) :
              /\ cache[calls[s].reportID][i].sequenceNumber =
                    calls[s].reportAction.sequenceNumber - 1
              /\ ~Shown(cache[calls[s].reportID][i])
              /\ \A j \in 1..Len(calls[s].value) :
                    calls[s].value[j] # cache[calls[s].reportID][i]

\* C10 as claimed: set on a report that has no cache does what get does
\* there, whatever the item: one full fetch, the response becomes the cached
\* array (the item is not put in, no second request is sent), and the call
\* resolves with the filtered response.
C10_SetUncachedIsGet ==
    [][\A s \in Slots :
        LET reportID == calls'[s].reportID
        IN  /\ (SetStarts(s) /\ reportID \notin DOMAIN cache)
               => /\ calls'[s].pc = "cacheFirst"
                  /\ calls'[s].sent = <<FullRequest(reportID)>>
                  /\ cache' = cache
            /\ (calls[s].op = "set" /\ calls[s].pc = "cacheFirst" /\ Delivers(s))
               => /\ calls'[s].promise = "resolved"
                  /\ calls'[s].sent = calls[s].sent
                  /\ cache'[reportID] = calls[s].response[1]
                  /\ calls'[s].value = filterHiddenActions(calls[s].response[1])
    ]_vars

\* C10 amended: set on a report that has no cache sends a full fetch and the
\* response becomes the cached array; then the call goes on as on a cached
\* report.  When the response holds an item with the number of the new item,
\* the call resolves with the filtered response and nothing else happens.
\* When it holds the predecessor only, the new item is put in front of it and
\* the call resolves with the filtered array.  When it holds neither, a
\* second request is sent (a poll from the first item of the response, or a
\* second full fetch when the response is empty), and the call resolves with
\* the filtered array that the second response leaves in the cache.
C10_SetUncachedFetchesThenReconciles ==
    [][\A s \in Slots :
        LET reportID == calls'[s].reportID
            reportAction == calls[s].reportAction
            N == reportAction.sequenceNumber
            response == calls[s].response[1]
        IN  /\ (SetStarts(s) /\ reportID \notin DOMAIN cache)
               => /\ calls'[s].pc = "cacheFirst"
                  /\ calls'[s].sent = <<FullRequest(reportID)>>
                  /\ cache' = cache
            /\ (calls[s].op = "set" /\ calls[s].pc = "cacheFirst" /\ Delivers(s))
               => IF \E i \in 1..Len(response) : response[i].sequenceNumber = N
                  THEN /\ calls'[s].promise = "resolved"
                       /\ calls'[s].sent = calls[s].sent
                       /\ cache'[reportID] = response
                       /\ calls'[s].value = filterHiddenActions(response)
                  ELSE IF \E i \in 1..Len(response) :
                             response[i].sequenceNumber = N - 1
                  THEN /\ calls'[s].promise = "resolved"
                       /\ calls'[s].sent = calls[s].sent
                       /\ cache'[reportID] = <<reportAction>> \o response
                       /\ calls'[s].value = filterHiddenActions(cache'[reportID])
                  ELSE /\ calls'[s].promise = "pending"
                       /\ cache'[reportID] = response
                       /\ calls'[s].sent = Append(calls[s].sent,
                             IF response = <<>> THEN FullRequest(reportID)
                             ELSE PollRequest(reportID,
                                              response[1].sequenceNumber))
            /\ (calls[s].op = "set" /\ Len(calls[s].sent) = 2 /\ Delivers(s))
               => /\ calls'[s].promise = "resolved"
                  /\ calls'[s].sent = calls[s].sent
                  /\ cache'[reportID] =
                        IF HasOffset(Pending(calls[s]))
                        THEN mergeItems(cache[reportID], response)
                        ELSE response
                  /\ calls'[s].value = filterHiddenActions(cache'[reportID])
    ]_vars

\* C10 happens: a set call that started on a report without cache has
\* resolved after one full fetch with its item in front of the fetched items.
C10_Witness ==
    \E s \in Slots :
        /\ calls[s].op = "set"
        /\ ~calls[s].loaded
        /\ calls[s].promise = "resolved"
        /\ calls[s].path = "unshift"
        /\ calls[s].sent = <<FullRequest(calls[s].reportID)>>
        /\ Len(cache[calls[s].reportID]) >= 2
        /\ cache[calls[s].reportID][1] = calls[s].reportAction

\* C11: when the cache of the report holds an item with the number of the
\* new item, set sends no request, leaves the cached array as it is (same
\* items, same order, the new item not put in again) and resolves with the
\* filtered cached array.
C11_SetCachedNoChange ==
    [][\A s \in Slots :
        LET reportID == calls'[s].reportID
            N == calls'[s].reportAction.sequenceNumber
        IN  (SetStarts(s) /\ Cached(reportID, N))
            => /\ calls'[s].sent = <<>>
               /\ cache' = cache
               /\ calls'[s].promise = "resolved"
               /\ calls'[s].value = filterHiddenActions(cache[reportID])
    ]_vars

\* C11 happens: a set call has resolved without request on a cached array
\* that holds its item behind a newer one, exactly once.
C11_Witness ==
    \E s \in Slots :
        /\ calls[s].op = "set"
        /\ calls[s].loaded
        /\ calls[s].path = "cached"
        /\ calls[s].sent = <<>>
        /\ calls[s].promise = "resolved"
        /\ Len(cache[calls[s].reportID]) >= 2
        /\ cache[calls[s].reportID][2] = calls[s].reportAction
        /\ Count(cache[calls[s].reportID],
                 calls[s].reportAction.sequenceNumber) = 1

\* The step resolves the public promise of the call in slot s.
Resolves(s) == calls[s].promise = "pending" /\ calls'[s].promise = "resolved"

\* C12: at the moment a get or set call resolves, its value is the filter
\* applied to the whole cached array of the report as it is at that moment,
\* after the merge or replace of the call: not the answer alone, and not the
\* array as it was before.
C12_ValueIsFilteredCache ==
    [][\A s \in Slots :
        Resolves(s) =>
            /\ calls'[s].reportID \in DOMAIN cache'
            /\ calls'[s].value =
                   filterHiddenActions(cache'[calls'[s].reportID])
    ]_vars

\* C12 happens: a get call has resolved after a poll whose answer brought
\* an item newer than its offset, and its value holds an item that was
\* cached before.
C12_Witness ==
    \E s \in Slots :
        /\ calls[s].op = "get"
        /\ calls[s].promise = "resolved"
        /\ Len(calls[s].sent) = 1
        /\ HasOffset(calls[s].sent[1])
        /\ Len(cache[calls[s].reportID]) >= 2
        /\ cache[calls[s].reportID][1].sequenceNumber > calls[s].sent[1].offset
        /\ calls[s].value = filterHiddenActions(cache[calls[s].reportID])
        /\ \E i \in 1..Len(calls[s].value) :
              calls[s].value[i].sequenceNumber <= calls[s].sent[1].offset

\* C13: when the answer to the poll of a get call is empty, the merge changes
\* nothing: the cached array keeps its items in their order, and the call
\* resolves with that array (filtered, as every value of the public get is).
C13_EmptyDeltaNoOp ==
    [][\A s \in Slots :
        ( /\ calls[s].op = "get"
          /\ calls[s].pc = "poll"
          /\ Delivers(s)
          /\ calls[s].response[1] = <<>> )
        => /\ cache' = cache
           /\ calls'[s].promise = "resolved"
           /\ calls'[s].value = filterHiddenActions(cache[calls[s].reportID])
    ]_vars

\* C13 happens: a get call has resolved after a poll from the newest item the
\* server has, and the cached array is the server's history of three items.
C13_Witness ==
    \E s \in Slots :
        /\ calls[s].op = "get"
        /\ calls[s].promise = "resolved"
        /\ Len(cache[calls[s].reportID]) >= 3
        /\ cache[calls[s].reportID] = log[calls[s].reportID]
        /\ calls[s].sent =
              <<PollRequest(calls[s].reportID,
                            log[calls[s].reportID][1].sequenceNumber)>>

\* C14: the cached array of every report holds each sequence number at most
\* once (the server's answers hold none twice).
C14_NoDuplicatesCached ==
    \A r \in DOMAIN cache : NoDuplicates(cache[r])

\* C14 happens: a get call polled from an offset, a set call has put a newer
\* item in on the fast path, the server has that item too, and the get call
\* has resolved: the cached array holds the item once.
C14_Witness ==
    \E s, t \in Slots :
        /\ calls[s].op = "get" /\ calls[s].promise = "resolved"
        /\ Len(calls[s].sent) = 1 /\ HasOffset(calls[s].sent[1])
        /\ calls[t].op = "set" /\ calls[t].path = "unshift"
        /\ calls[t].reportAction.sequenceNumber > calls[s].sent[1].offset
        /\ findWhere(log[calls[t].reportID],
                     calls[t].reportAction.sequenceNumber)
        /\ Count(cache[calls[t].reportID],
                 calls[t].reportAction.sequenceNumber) = 1
        /\ cache[calls[t].reportID] = log[calls[t].reportID]

\* C15: the cached array of every report is in strictly descending order of
\* sequence number, whatever numbers the set calls carry and whatever
\* numbers the server's history skips; so the fast path of set only puts an
\* item in front whose number is greater than every cached one.
C15_CacheDescending ==
    \A r \in DOMAIN cache : Descending(cache[r])

\* C16: get on a report that has a cached array, empty or not, sends exactly
\* one request, a poll whose offset is the greatest cached sequence number
\* (0 when the array is empty) and never a full fetch; the answer is merged
\* into the cached array, which is never replaced.
C16_GetCachedPolls ==
    [][\A s \in Slots :
        LET reportID == calls'[s].reportID
        IN  /\ (GetStarts(s) /\ reportID \in DOMAIN cache)
               => /\ calls'[s].pc = "poll"
                  /\ calls'[s].sent =
                        <<PollRequest(reportID,
                             IF cache[reportID] = <<>> THEN 0
                             ELSE GreatestSeq(cache[reportID]))>>
                  /\ cache' = cache
            /\ (calls[s].op = "get" /\ calls[s].loaded /\ Delivers(s))
               => /\ calls[s].pc = "poll"
                  /\ calls'[s].sent = calls[s].sent
                  /\ cache'[reportID] =
                        mergeItems(cache[reportID], calls[s].response[1])
    ]_vars

\* The calls in slots s and t are two get calls on the same report, each of
\* which started its poll before the other resolved.
Twins(s, t) ==
    /\ s # t
    /\ calls[s].twin /\ calls[t].twin
    /\ calls[s].reportID = calls[t].reportID

\* C17 as claimed: when get is called twice on a report with a non-empty
\* cache before either call resolves, each call sends its own poll, and in
\* whatever order the answers arrive the merge of the answer that arrives
\* later changes nothing; the cached array holds no number twice.
C17_TwinGetsLaterMergeNoOp ==
    [][\A s, t \in Slots :
        /\ (GetStarts(s) /\ s # t /\ Twin(calls[t], calls'[s]))
           => /\ calls'[s].sent =
                    <<PollRequest(calls'[s].reportID,
                                  PollOffset(cache[calls'[s].reportID]))>>
              /\ calls'[t].sent = calls[t].sent
              /\ Len(calls[t].sent) = 1
        /\ (Twins(s, t) /\ calls[t].promise = "resolved" /\ Delivers(s))
           => /\ cache' = cache
              /\ NoDuplicates(cache'[calls[s].reportID])
    ]_vars

\* C17 amended: each of the two get calls sends its own poll, and the merge
\* of the answer that arrives later puts in front of the cached array the
\* items of that answer whose numbers are not cached yet, in the order of
\* the answer; the array then holds no number twice.  The later merge
\* changes nothing exactly when every number of the later answer is cached
\* by then; the answer of a request that the server answered after it had
\* recorded a new action brings that action in, also when it arrives last.
C17_TwinGetsLaterMergeAddsNew ==
    [][\A s, t \in Slots :
        /\ (GetStarts(s) /\ s # t /\ Twin(calls[t], calls'[s]))
           => /\ calls'[s].sent =
                    <<PollRequest(calls'[s].reportID,
                                  PollOffset(cache[calls'[s].reportID]))>>
              /\ calls'[t].sent = calls[t].sent
              /\ Len(calls[t].sent) = 1
        /\ (Twins(s, t) /\ calls[t].promise = "resolved" /\ Delivers(s))
           => LET reportID == calls[s].reportID
                  new == NotIn(calls[s].response[1], cache[reportID])
              IN  /\ cache'[reportID] = new \o cache[reportID]
                  /\ NoDuplicates(cache'[reportID])
                  /\ (cache' = cache) <=> (new = <<>>)
                  /\ calls'[s].value = filterHiddenActions(cache'[reportID])
    ]_vars

\* C17 happens: two get calls that polled the same report from the same
\* offset before either resolved have both resolved, and the cached array
\* holds newer items than that offset, none twice.
C17_Witness ==
    \E s, t \in Slots :
        /\ Twins(s, t)
        /\ calls[s].promise = "resolved" /\ calls[t].promise = "resolved"
        /\ calls[s].sent = calls[t].sent
        /\ Len(cache[calls[s].reportID]) >= 3
        /\ cache[calls[s].reportID][2].sequenceNumber > calls[s].sent[1].offset
        /\ NoDuplicates(cache[calls[s].reportID])

----------------------------------------------------------------------------
(* Progress.  Every request gets a successful answer: no request fails,   *)
(* the server answers every request that waits (Serve is fair) and every   *)
(* answer arrives (Deliver is fair).  The callers are free to call or not. *)

MaxLiveSeq == 2    \* sequence numbers of the report are 1..MaxLiveSeq

LiveNext ==
    \/ \E s \in Slots : Get(s, "r1")
    \/ \E s \in Slots : \E n \in 1..MaxLiveSeq : Set(s, "r1", Item(n))
    \/ \E s \in Slots : Serve(s)
    \/ \E s \in Slots : Deliver(s)
    \/ \E s \in Slots : Return(s)
    \/ \E n \in 1..MaxLiveSeq : NewAction("r1", n)

LiveSpec ==
    /\ Init
    /\ [][LiveNext]_vars
    /\ \A s \in Slots : WF_vars(Serve(s)) /\ WF_vars(Deliver(s))

\* C18: when every request is answered successfully, every get call and
\* every set call resolves in the end, whichever path it takes and however
\* the calls and the answers of the two callers interleave.
C18_EveryCallResolves ==
    \A s \in Slots :
        (calls[s].op # "none") ~> (calls[s].promise = "resolved")

\* C18 happens: a set call on a report without cache has resolved after two
\* requests, the full fetch and the get that followed it, while the other
\* caller has a call in progress.
C18_Witness ==
    \E s, t \in Slots :
        /\ calls[s].op = "set"
        /\ calls[s].path = "refetch"
        /\ Len(calls[s].sent) = 2
        /\ calls[s].promise = "resolved"
        /\ s # t
        /\ Waiting(calls[t])

\* C19: a sequence number that is in the cached array of a report is in it in
\* every later state: no call and no answer, however late, takes an item out
\* of the cache.
C19_CacheOnlyGrows ==
    [][\A r \in DOMAIN cache :
        /\ r \in DOMAIN cache'
        /\ \A i \in 1..Len(cache[r]) :
              findWhere(cache'[r], cache[r][i].sequenceNumber)
    ]_vars

\* C20: whenever mergeItems runs for a report (the answer to a poll is
\* delivered), the cache holds a non-empty array for that report.
C20_MergeOnNonEmptyCache ==
    [][\A s \in Slots :
        (calls[s].pc = "poll" /\ Delivers(s))
        => /\ calls[s].reportID \in DOMAIN cache
           /\ cache[calls[s].reportID] # <<>>
    ]_vars

====
